---- MODULE Spec2Model ----
(***************************************************************************)
(* State-machine model of the CARLA driver scripts:                        *)
(*   record_images.py            recorder (lock-step capture loop)         *)
(*   playback/replay_with_sensors.py   run_replay + camera/data/follow     *)
(*   recording/record_replay_logs.py   record_log / replay_log / info      *)
(*   utils/ffmpeg_video.py       create_video / create_video_with_bitrate  *)
(* One behaviour runs one operation (prog), chosen with its inputs in Init.*)
(* The simulator, the filesystem and the encoder are the environment:      *)
(* every library call may raise, the sensor may or may not deliver.        *)
(* Times are in hundredths of a second, step sizes in milliseconds.        *)
(***************************************************************************)
EXTENDS Integers, Sequences, FiniteSets

\* ---------------------------------------------------------------- constants
FPS == 20
RECORD_TIME == 5
SYNCHRONOUS_MODE == TRUE
max_wait_attempts == 50
INIT_TICKS == 10

\* ---------------------------------------------------------------- bounds
MaxFrames == 2          \* replay durations are 0 .. MaxFrames frame periods
MaxVehicles == 2        \* vehicle actors the replay can spawn
MaxAsyncFrames == 2     \* frames the sensor delivers during wall-clock capture
MaxRecordSeconds == 2   \* record_log durations, in seconds
MaxImages == 2          \* frame files present in the frame directory
MaxOwed == 2            \* rendered frames the sensor has yet to hand over

VARIABLES
    prog, pc, exc,
    sync_mode, cbMode, duration, logExists,
    worldSettings, heap, settings, original_settings, preSettings, mutated,
    replayStarted, ticked, init_ticks,
    camera, listening, frame_count, captured_image, files, elapsed,
    heldWritten, lost, owed,
    live, spawned, vehicles, wait_attempts, fileOpened, blocks, vidx,
    skipped,
    startCalls, stopCalls, slept, infoShown,
    dirExists, numImages, ffmpeg, bitrate, output_name,
    BITRATE, VIDEO_FILE, original_bitrate, original_video,
    encoderExit, encoderCalls, videoFiles, success,
    printed

ctl    == <<prog, pc, exc>>
inputs == <<sync_mode, cbMode, duration, logExists>>
sess   == <<worldSettings, heap, settings, original_settings, preSettings, mutated>>
sim    == <<replayStarted, ticked, init_ticks>>
cap    == <<camera, listening, frame_count, captured_image, files, elapsed>>
handoff == <<heldWritten, lost>>
actors == <<live, spawned>>
telem  == <<vehicles, wait_attempts, fileOpened, blocks, vidx, skipped>>
reclog == <<startCalls, stopCalls, slept, infoShown>>
vidin  == <<dirExists, numImages, ffmpeg, bitrate, output_name>>
vidcfg == <<BITRATE, VIDEO_FILE, original_bitrate, original_video>>
vidout == <<encoderExit, encoderCalls, videoFiles, success>>
video  == <<vidin, vidcfg, vidout>>
vars   == <<ctl, inputs, sess, sim, cap, handoff, owed, actors, telem, reclog, video, printed>>

\* ---------------------------------------------------------------- helpers
\* the settings a world can be found in: the simulator's default (free-running,
\* variable step: 0) and lock-step at the scripts' step size
SettingsValues ==
    { [synchronous_mode |-> FALSE, fixed_delta_seconds |-> 0],
      [synchronous_mode |-> TRUE, fixed_delta_seconds |-> 1000 \div FPS] }

\* settings.synchronous_mode = ...; settings.fixed_delta_seconds = 1.0 / FPS
ModifiedSettings(s, sm) ==
    IF sm THEN [s EXCEPT !.synchronous_mode = TRUE,
                         !.fixed_delta_seconds = 1000 \div FPS]
          ELSE [s EXCEPT !.synchronous_mode = FALSE]

\* the replay durations offered on the command line, in hundredths of a second
Durations == {(100 \div FPS) * k : k \in 0..MaxFrames}

\* target_frames: RECORD_TIME * FPS in the recorder, int(duration * FPS) in replay
Target ==
    IF prog = "record_images" THEN RECORD_TIME * FPS
    ELSE (duration * FPS) \div 100

ReplayModes == {"camera", "data", "follow"}
CaptureProgs == {"record_images", "camera", "follow"}

RECURSIVE Ascending(_)
Ascending(S) ==
    IF S = {} THEN <<>>
    ELSE LET m == CHOOSE x \in S : \A y \in S : x <= y
         IN <<m>> \o Ascending(S \ {m})

\* world.get_actors().filter('vehicle.*'): the live vehicles, by actor id
ActorList(S) == Ascending(S)

\* the emptiness check after the wait left out
NoVehiclesUnchecked(vs) == FALSE

\* "not vehicles": the collection is empty
NoVehicles(vs) == Len(vs) = 0

\* the holder's content is dropped without having been written to disk
DropsUnwritten == captured_image = "image" /\ ~heldWritten

\* captured_image = image, in the callback: whatever the holder held is replaced
StoreImage ==
    /\ captured_image' = "image"
    /\ heldWritten' = FALSE
    /\ lost' = (lost \/ DropsUnwritten)

\* where control goes when the statement at position c raises
Handler(c) ==
    IF prog = "record_images" THEN "done"
    ELSE IF c \in {"rr_replay_file", "rr_init"}
         THEN (IF prog = "data" THEN "done" ELSE "mode_finally")
         ELSE "rr_finally"

Raise(c) == pc' = Handler(c) /\ exc' = TRUE

\* create_video returns v: to the caller's restore, or out of the script
VideoReturn(v) ==
    /\ success' = v
    /\ pc' = IF prog = "create_video_with_bitrate" THEN "cvb_restore" ELSE "done"

\* the existence check left out
LogMissingUnchecked == FALSE

\* "if not os.path.exists(log_filename)"
LogMissing == ~logExists

\* record_log, except around start_recorder: return
StartFailed == "done"

\* record_log, stop_recorder returned
StopReturns == pc' = "rl_check_file" /\ UNCHANGED exc

\* the error of stop_recorder not caught
StopFailedPropagates == pc' = "done" /\ exc' = TRUE

\* record_log, except around stop_recorder: report and go on
StopFailed == pc' = "rl_check_file" /\ UNCHANGED exc

\* the check for frame files left out
NoImagesUnchecked == FALSE

\* "if not image_files"
NoImages == numImages = 0

\* the encoder's exit status ignored (subprocess.run without check=True)
EncoderOutcomeUnchecked ==
    IF ffmpeg = "missing"
    THEN /\ encoderExit' = "not_installed"
         /\ printed' = printed \cup {"ffmpeg not found"}
         /\ UNCHANGED videoFiles
         /\ VideoReturn("False")
    ELSE /\ encoderExit' = IF ffmpeg = "fails" THEN "nonzero" ELSE "zero"
         /\ printed' = printed \cup {"Video created"}
         /\ videoFiles' = videoFiles \cup {VIDEO_FILE}
         /\ VideoReturn("True")

\* the outcome of subprocess.run(cmd, check=True): FileNotFoundError when the
\* encoder is not installed, CalledProcessError when it exits non-zero
EncoderOutcome ==
    IF ffmpeg = "missing"
    THEN /\ encoderExit' = "not_installed"
         /\ printed' = printed \cup {"ffmpeg not found"}
         /\ UNCHANGED videoFiles
         /\ VideoReturn("False")
    ELSE IF ffmpeg = "fails"
    THEN /\ encoderExit' = "nonzero"
         /\ printed' = printed \cup {"ffmpeg failed", "Error output: stderr"}
         /\ UNCHANGED videoFiles
         /\ VideoReturn("False")
    ELSE /\ encoderExit' = "zero"
         /\ printed' = printed \cup {"Video created"}
         /\ videoFiles' = videoFiles \cup {VIDEO_FILE}
         /\ VideoReturn("True")

\* ---------------------------------------------------------------- Init
InitCommon ==
    /\ pc = "start" /\ exc = FALSE
    /\ worldSettings \in SettingsValues
    /\ heap = [o \in 1..2 |-> worldSettings]
    /\ settings = 0 /\ original_settings = 0
    /\ preSettings = worldSettings /\ mutated = FALSE
    /\ replayStarted = FALSE /\ ticked = FALSE /\ init_ticks = 0
    /\ camera = "None" /\ listening = FALSE
    /\ frame_count = 0 /\ captured_image = "None" /\ files = <<>> /\ elapsed = 0
    /\ heldWritten = FALSE /\ lost = FALSE /\ owed = 0
    /\ live = {} /\ spawned = 0
    /\ vehicles = <<>> /\ wait_attempts = 0 /\ fileOpened = FALSE
    /\ blocks = <<>> /\ vidx = 0 /\ skipped = {}
    /\ startCalls = 0 /\ stopCalls = 0 /\ slept = 0 /\ infoShown = FALSE
    /\ BITRATE = "5M" /\ VIDEO_FILE = "carla_output.mp4"
    /\ original_bitrate = "unset" /\ original_video = "unset"
    /\ encoderExit = "not_run" /\ encoderCalls = <<>> /\ videoFiles = {}
    /\ success = "unset"
    /\ printed = {}

\* the inputs of the video assembler, fixed while another operation runs
NoVideoInputs ==
    /\ dirExists = FALSE /\ numImages = 0 /\ ffmpeg = "ok"
    /\ bitrate = "5M" /\ output_name = "None"

InitRecorder ==
    /\ prog = "record_images"
    /\ sync_mode = SYNCHRONOUS_MODE
    /\ cbMode \in {"in_tick", "free"}
    /\ duration = 100 * RECORD_TIME
    /\ logExists = TRUE
    /\ NoVideoInputs

InitReplay ==
    /\ prog \in ReplayModes
    /\ sync_mode \in BOOLEAN
    /\ cbMode \in (IF sync_mode /\ prog # "data" THEN {"in_tick", "free"} ELSE {"in_tick"})
    /\ duration \in Durations
    /\ logExists \in BOOLEAN
    /\ NoVideoInputs

\* record_log(client, world, duration, log_filename): duration in whole seconds
InitRecordLog ==
    /\ prog = "record_log"
    /\ sync_mode = FALSE /\ cbMode = "in_tick"
    /\ duration \in {100 * k : k \in 0..MaxRecordSeconds}
    /\ logExists \in BOOLEAN
    /\ NoVideoInputs

\* replay_log / get_log_info on a log file that may not exist
InitLogTools ==
    /\ prog \in {"replay_log", "get_log_info"}
    /\ sync_mode = FALSE /\ cbMode = "in_tick"
    /\ duration \in {0, 100}
    /\ logExists \in BOOLEAN
    /\ NoVideoInputs

\* create_video / create_video_with_bitrate: the frame directory, the frames
\* in it and the encoder installation are the environment's
InitVideo ==
    /\ prog \in {"create_video", "create_video_with_bitrate"}
    /\ sync_mode = FALSE /\ cbMode = "in_tick"
    /\ duration = 0 /\ logExists = FALSE
    /\ dirExists \in BOOLEAN
    /\ numImages \in (IF dirExists THEN 0..MaxImages ELSE {0})
    /\ ffmpeg \in {"missing", "fails", "ok"}
    /\ bitrate \in (IF prog = "create_video" THEN {"5M"} ELSE {"5M", "10M"})
    /\ output_name \in (IF prog = "create_video" THEN {"None"}
                        ELSE {"None", "", "high_quality.mp4"})

Init ==
    /\ InitCommon
    /\ (InitRecorder \/ InitReplay \/ InitRecordLog \/ InitLogTools \/ InitVideo)

\* ---------------------------------------------------------------- record_images.main
\* lines 17-32: save the original settings, apply the modified ones
RecSettings ==
    /\ prog = "record_images" /\ pc = "start"
    /\ original_settings' = 1
    /\ settings' = 2
    /\ heap' = [heap EXCEPT ![1] = worldSettings,
                            ![2] = ModifiedSettings(worldSettings, SYNCHRONOUS_MODE)]
    /\ worldSettings' = ModifiedSettings(worldSettings, SYNCHRONOUS_MODE)
    /\ preSettings' = worldSettings
    /\ mutated' = TRUE
    /\ pc' = "ri_spawn_vehicle"
    /\ UNCHANGED <<prog, exc, inputs, sim, cap, actors, telem, printed, reclog, video, handoff, owed>>

\* lines 35-39: spawn the vehicle (the library call may raise)
RecSpawnVehicle ==
    /\ prog = "record_images" /\ pc = "ri_spawn_vehicle"
    /\ \/ /\ live' = live \cup {1} /\ spawned' = 1
          /\ pc' = "ri_spawn_camera" /\ UNCHANGED exc
       \/ /\ Raise(pc) /\ UNCHANGED actors
    /\ UNCHANGED <<prog, inputs, sess, sim, cap, telem, printed, reclog, video, handoff, owed>>

\* lines 41-54: spawn the camera attached to the vehicle
RecSpawnCamera ==
    /\ prog = "record_images" /\ pc = "ri_spawn_camera"
    /\ \/ /\ camera' = "live" /\ pc' = "ri_listen" /\ UNCHANGED exc
       \/ /\ Raise(pc) /\ UNCHANGED camera
    /\ UNCHANGED <<prog, inputs, sess, sim, listening, frame_count,
                   captured_image, files, elapsed, actors, telem, printed, reclog, video, handoff, owed>>

\* lines 56-79: frame_count = 0, captured_image = None, camera.listen(save_image)
RecListen ==
    /\ prog = "record_images" /\ pc = "ri_listen"
    /\ frame_count' = 0 /\ captured_image' = "None"
    /\ listening' = TRUE
    /\ pc' = IF SYNCHRONOUS_MODE THEN "loop_test" ELSE "async_wait"
    /\ UNCHANGED <<prog, exc, inputs, sess, sim, camera, files, elapsed,
                   actors, telem, printed, reclog, video, handoff, owed>>

\* lines 104-107: camera.stop(); camera.destroy(); vehicle.destroy()
RecCleanup ==
    /\ prog = "record_images" /\ pc = "ri_cleanup"
    /\ camera' = "destroyed" /\ listening' = FALSE
    /\ live' = live \ {1}
    /\ pc' = "ri_restore"
    /\ UNCHANGED <<prog, exc, inputs, sess, sim, frame_count, captured_image,
                   files, elapsed, spawned, telem, printed, reclog, video, handoff, owed>>

\* line 110: world.apply_settings(original_settings)
RecRestore ==
    /\ prog = "record_images" /\ pc = "ri_restore"
    /\ worldSettings' = heap[original_settings]
    /\ pc' = "done"
    /\ UNCHANGED <<prog, exc, inputs, heap, settings, original_settings,
                   preSettings, mutated, sim, cap, actors, telem, printed, reclog, video, handoff, owed>>

\* the loop test off by one: while frame_count <= target
LoopTestOffByOne ==
    /\ prog \in CaptureProgs /\ pc = "loop_test"
    /\ pc' = IF frame_count <= Target THEN "tick"
             ELSE IF prog = "record_images" THEN "ri_cleanup" ELSE "rr_finally"
    /\ UNCHANGED <<prog, exc, inputs, sess, sim, cap, actors, telem, reclog, video, printed, handoff, owed>>

\* ---------------------------------------------------------------- lock-step capture loop
\* while frame_count < target
LoopTest ==
    /\ prog \in CaptureProgs /\ pc = "loop_test"
    /\ pc' = IF frame_count < Target THEN "tick"
             ELSE IF prog = "record_images" THEN "ri_cleanup" ELSE "rr_finally"
    /\ UNCHANGED <<prog, exc, inputs, sess, sim, cap, actors, telem, printed, reclog, video, handoff, owed>>

\* world.tick(): blocks until the server completed the step. The sensor renders
\* at most one frame per step. With the callback run inside the step (cbMode
\* "in_tick") it is invoked before tick returns; run from the library's own
\* thread (cbMode "free") the frame is owed and handed over by OnImage.
Tick ==
    /\ prog \in CaptureProgs /\ pc = "tick"
    /\ ticked' = TRUE
    /\ \/ /\ pc' = "check" /\ UNCHANGED exc
          /\ \E delivered \in BOOLEAN :
                IF delivered /\ listening
                THEN IF cbMode = "in_tick"
                     THEN StoreImage /\ UNCHANGED owed
                     ELSE /\ owed' = IF owed < MaxOwed THEN owed + 1 ELSE owed
                          /\ UNCHANGED <<captured_image, handoff>>
                ELSE UNCHANGED <<captured_image, handoff, owed>>
       \/ /\ Raise(pc) /\ UNCHANGED <<captured_image, handoff, owed>>
    /\ UNCHANGED <<prog, inputs, sess, replayStarted, init_ticks, camera,
                   listening, frame_count, files, elapsed, actors, telem, printed, reclog, video>>

\* the sensor callback run from the library's own thread, once per rendered
\* frame: captured_image = image
OnImage ==
    /\ prog \in CaptureProgs /\ sync_mode /\ cbMode = "free"
    /\ listening /\ camera = "live" /\ pc # "done"
    /\ owed > 0
    /\ owed' = owed - 1
    /\ StoreImage
    /\ UNCHANGED <<ctl, inputs, sess, sim, camera, listening, frame_count,
                   files, elapsed, actors, telem, printed, reclog, video>>

\* the loop waits at the check until a frame is there
CheckHolderWaits ==
    /\ prog \in CaptureProgs /\ pc = "check"
    /\ pc' = IF captured_image # "None" THEN "save" ELSE "check"
    /\ UNCHANGED <<prog, exc, inputs, sess, sim, cap, handoff, owed, actors, telem,
                   printed, reclog, video>>

\* if captured_image is not None
CheckHolder ==
    /\ prog \in CaptureProgs /\ pc = "check"
    /\ pc' = IF captured_image # "None" THEN "save" ELSE "loop_test"
    /\ UNCHANGED <<prog, exc, inputs, sess, sim, cap, actors, telem, printed, reclog, video, handoff, owed>>

\* captured_image.save_to_disk(f"frame_{frame_count:06d}.jpg")
SaveFrame ==
    /\ prog \in CaptureProgs /\ pc = "save"
    /\ \/ /\ files' = Append(files, frame_count)
          /\ heldWritten' = TRUE
          /\ pc' = "incr" /\ UNCHANGED exc
       \/ /\ Raise(pc) /\ UNCHANGED <<files, heldWritten, owed>>
    /\ UNCHANGED <<prog, inputs, sess, sim, camera, listening, frame_count,
                   captured_image, elapsed, lost, actors, telem, printed, reclog, video, owed>>

\* frame_count += 1
IncrFrame ==
    /\ prog \in CaptureProgs /\ pc = "incr"
    /\ frame_count' = frame_count + 1
    /\ pc' = "clear"
    /\ UNCHANGED <<prog, exc, inputs, sess, sim, camera, listening,
                   captured_image, files, elapsed, actors, telem, printed, reclog, video, handoff, owed>>

\* the holder is not cleared after the write
ClearHolderForgotten ==
    /\ prog \in CaptureProgs /\ pc = "clear"
    /\ pc' = "loop_test"
    /\ UNCHANGED <<prog, exc, inputs, sess, sim, cap, actors, telem, reclog, video, printed, handoff, owed>>

\* captured_image = None
ClearHolder ==
    /\ prog \in CaptureProgs /\ pc = "clear"
    /\ captured_image' = "None"
    /\ heldWritten' = FALSE
    /\ lost' = (lost \/ DropsUnwritten)
    /\ pc' = "loop_test"
    /\ UNCHANGED <<prog, exc, inputs, sess, sim, camera, listening,
                   frame_count, files, elapsed, actors, telem, printed, reclog, video, owed>>

\* ---------------------------------------------------------------- run_replay
\* lines 14-17: the log file must exist, otherwise report and return
RunReplayExists ==
    /\ prog \in ReplayModes /\ pc = "start"
    /\ IF LogMissing
       THEN /\ printed' = printed \cup {"Log file not found"}
            /\ pc' = IF prog = "data" THEN "done" ELSE "mode_finally"
       ELSE pc' = "rr_settings" /\ UNCHANGED printed
    /\ UNCHANGED <<prog, exc, inputs, sess, sim, cap, actors, telem, reclog, video, handoff, owed>>

\* lines 21-34: settings = world.get_settings(); original_settings = settings;
\* the one object is modified and applied
RunReplaySettings ==
    /\ prog \in ReplayModes /\ pc = "rr_settings"
    /\ settings' = 1
    /\ original_settings' = 1
    /\ heap' = [heap EXCEPT ![1] = ModifiedSettings(worldSettings, sync_mode)]
    /\ worldSettings' = ModifiedSettings(worldSettings, sync_mode)
    /\ preSettings' = worldSettings
    /\ mutated' = TRUE
    /\ pc' = "rr_replay_file"
    /\ UNCHANGED <<prog, exc, inputs, sim, cap, actors, telem, printed, reclog, video, handoff, owed>>

\* line 37: client.replay_file(log_file, 0, 0, 0), outside the try block
RunReplayFile ==
    /\ prog \in ReplayModes /\ pc = "rr_replay_file"
    /\ \/ /\ replayStarted' = TRUE /\ pc' = "rr_init" /\ UNCHANGED exc
       \/ /\ Raise(pc) /\ UNCHANGED replayStarted
    /\ UNCHANGED <<prog, inputs, sess, ticked, init_ticks, cap, actors, telem,
                   printed, reclog, video, handoff, owed>>

\* lines 41-47: ten initialization ticks (sync) or a one-second sleep (async),
\* outside the try block
RunReplayInit ==
    /\ prog \in ReplayModes /\ pc = "rr_init"
    /\ IF sync_mode
       THEN IF init_ticks < INIT_TICKS
            THEN /\ ticked' = TRUE
                 /\ \/ /\ init_ticks' = init_ticks + 1 /\ UNCHANGED <<pc, exc, reclog, video, handoff, owed>>
                    \/ /\ Raise(pc) /\ UNCHANGED init_ticks
            ELSE pc' = "rr_call" /\ UNCHANGED <<exc, ticked, init_ticks, reclog, video, handoff, owed>>
       ELSE pc' = "rr_call" /\ UNCHANGED <<exc, ticked, init_ticks, reclog, video, handoff, owed>>
    /\ UNCHANGED <<prog, inputs, sess, replayStarted, cap, actors, telem, printed, reclog, video, handoff, owed>>

\* lines 49-56: capture_func(world, target, sync_mode) inside try; the first
\* statements of extract_data / follow_vehicle (start_time, vehicles = [],
\* wait_attempts = 0) are taken with the call
RunReplayCall ==
    /\ prog \in ReplayModes /\ pc = "rr_call"
    /\ IF prog = "camera"
       THEN pc' = "cf_create_camera" /\ UNCHANGED <<elapsed, vehicles, wait_attempts, reclog, video, handoff, owed>>
       ELSE /\ pc' = "wait_test"
            /\ elapsed' = 0 /\ vehicles' = <<>> /\ wait_attempts' = 0
    /\ UNCHANGED <<prog, exc, inputs, sess, sim, camera, listening, frame_count,
                   captured_image, files, actors, fileOpened, blocks, vidx, skipped, printed, reclog, video, handoff, owed>>

\* lines 57-59: finally: world.apply_settings(original_settings); a pending
\* exception goes on to the caller
RunReplayFinally ==
    /\ prog \in ReplayModes /\ pc = "rr_finally"
    /\ worldSettings' = heap[original_settings]
    /\ pc' = IF prog = "data" THEN "done" ELSE "mode_finally"
    /\ UNCHANGED <<prog, exc, inputs, heap, settings, original_settings,
                   preSettings, mutated, sim, cap, actors, telem, printed, reclog, video, handoff, owed>>

\* camera_mode / follow_mode, finally: if camera: camera.destroy()
ModeFinally ==
    /\ prog \in {"camera", "follow"} /\ pc = "mode_finally"
    /\ camera' = IF camera = "live" THEN "destroyed" ELSE camera
    /\ listening' = FALSE
    /\ pc' = "done"
    /\ UNCHANGED <<prog, exc, inputs, sess, sim, frame_count, captured_image,
                   files, elapsed, actors, telem, printed, reclog, video, handoff, owed>>

\* ---------------------------------------------------------------- camera_mode.capture_frames
\* lines 86-95 / 117-118: create the camera, start the clock, listen
CaptureCreateCamera ==
    /\ prog = "camera" /\ pc = "cf_create_camera"
    /\ \/ /\ camera' = "live" /\ listening' = TRUE /\ elapsed' = 0
          /\ pc' = IF sync_mode THEN "loop_test" ELSE "async_wait"
          /\ UNCHANGED exc
       \/ /\ Raise(pc) /\ UNCHANGED <<camera, listening, elapsed, reclog, video, handoff, owed>>
    /\ UNCHANGED <<prog, inputs, sess, sim, frame_count, captured_image, files,
                   actors, telem, printed, reclog, video, handoff, owed>>

\* wall-clock capture: while time.time() - start_time < target: time.sleep(0.1)
AsyncWait ==
    /\ prog \in CaptureProgs /\ pc = "async_wait"
    /\ IF elapsed < duration
       THEN elapsed' = elapsed + 10 /\ UNCHANGED pc
       ELSE /\ pc' = IF prog = "record_images" THEN "ri_cleanup" ELSE "rr_finally"
            /\ UNCHANGED elapsed
    /\ UNCHANGED <<prog, exc, inputs, sess, sim, camera, listening, frame_count,
                   captured_image, files, actors, telem, printed, reclog, video, handoff, owed>>

\* wall-clock capture, the callback save_image: write the frame, count it
AsyncSaveImage ==
    /\ prog \in CaptureProgs /\ ~sync_mode
    /\ listening /\ camera = "live" /\ pc # "done"
    /\ frame_count < MaxAsyncFrames
    /\ files' = Append(files, frame_count)
    /\ frame_count' = frame_count + 1
    /\ UNCHANGED <<ctl, inputs, sess, sim, camera, listening, captured_image,
                   elapsed, actors, telem, printed, reclog, video, handoff, owed>>

\* ---------------------------------------------------------------- the simulator's actors
\* the positions at which the program has yet to read the actor list or an
\* actor; past them the actors no longer influence it
ReadsActors ==
    /\ prog \in {"data", "follow"}
    /\ pc \in {"rr_init", "rr_call", "wait_test", "wait_poll", "wait_after",
               "fv_create_camera", "ed_open", "ed_test", "ed_step", "ed_vehicle",
               "ed_velocity", "ed_incr"}

\* the program has seen a vehicle: the bootstrap wait is over. A vehicle that
\* vanishes before any poll saw it is, to the program, one that never spawned.
Observed ==
    pc \in {"wait_after", "fv_create_camera", "ed_open", "ed_test", "ed_step",
            "ed_vehicle", "ed_velocity", "ed_incr"}

\* the replay spawns a vehicle
EnvSpawnVehicle ==
    /\ ReadsActors /\ replayStarted
    /\ spawned < MaxVehicles
    /\ spawned' = spawned + 1
    /\ live' = live \cup {spawned + 1}
    /\ UNCHANGED <<ctl, inputs, sess, sim, cap, telem, printed, reclog, video, handoff, owed>>

\* a vehicle is destroyed by the replay
EnvDestroyVehicle ==
    /\ ReadsActors /\ Observed
    /\ \E v \in live : live' = live \ {v}
    /\ UNCHANGED <<ctl, inputs, sess, sim, cap, spawned, telem, printed, reclog, video, handoff, owed>>

\* ---------------------------------------------------------------- replay bootstrap wait
\* while not vehicles and wait_attempts < max_wait_attempts
WaitTest ==
    /\ prog \in {"data", "follow"} /\ pc = "wait_test"
    /\ pc' = IF vehicles = <<>> /\ wait_attempts < max_wait_attempts
             THEN "wait_poll" ELSE "wait_after"
    /\ UNCHANGED <<prog, exc, inputs, sess, sim, cap, actors, telem, printed, reclog, video, handoff, owed>>

\* tick or sleep 0.1 s, then vehicles = world.get_actors().filter('vehicle.*')
WaitPoll ==
    /\ prog \in {"data", "follow"} /\ pc = "wait_poll"
    /\ IF sync_mode
       THEN /\ ticked' = TRUE /\ UNCHANGED elapsed
            /\ \/ /\ vehicles' = ActorList(live)
                  /\ wait_attempts' = wait_attempts + 1
                  /\ pc' = "wait_test" /\ UNCHANGED exc
               \/ /\ Raise(pc) /\ UNCHANGED <<vehicles, wait_attempts, reclog, video, handoff, owed>>
       ELSE /\ elapsed' = elapsed + 10
            /\ vehicles' = ActorList(live)
            /\ wait_attempts' = wait_attempts + 1
            /\ pc' = "wait_test" /\ UNCHANGED <<exc, ticked, reclog, video, handoff, owed>>
    /\ UNCHANGED <<prog, inputs, sess, replayStarted, init_ticks, camera,
                   listening, frame_count, captured_image, files, actors,
                   fileOpened, blocks, vidx, skipped, printed, reclog, video, handoff, owed>>

\* if not vehicles: print(...); return
WaitAfter ==
    /\ prog \in {"data", "follow"} /\ pc = "wait_after"
    /\ IF NoVehicles(vehicles)
       THEN /\ printed' = printed \cup {"No vehicles found"}
            /\ pc' = "rr_finally"
       ELSE /\ pc' = IF prog = "data" THEN "ed_open" ELSE "fv_create_camera"
            /\ UNCHANGED printed
    /\ UNCHANGED <<prog, exc, inputs, sess, sim, cap, actors, telem, reclog, video, handoff, owed>>

\* ---------------------------------------------------------------- follow_mode.follow_vehicle
\* lines 246-256 / 278-279: target_vehicle = vehicles[0]; create the camera
\* attached to it; start the clock; listen
FollowCreateCamera ==
    /\ prog = "follow" /\ pc = "fv_create_camera"
    /\ IF vehicles = <<>>
       THEN /\ printed' = printed \cup {"IndexError"}
            /\ Raise(pc) /\ UNCHANGED <<camera, listening, elapsed, reclog, video, handoff, owed>>
       ELSE /\ UNCHANGED printed
            /\ \/ /\ camera' = "live" /\ listening' = TRUE /\ elapsed' = 0
                  /\ pc' = IF sync_mode THEN "loop_test" ELSE "async_wait"
                  /\ UNCHANGED exc
               \/ /\ Raise(pc) /\ UNCHANGED <<camera, listening, elapsed, reclog, video, handoff, owed>>
    /\ UNCHANGED <<prog, inputs, sess, sim, frame_count, captured_image, files,
                   actors, telem, reclog, video, handoff, owed>>

\* the line is written although the read failed
ReadFailedWritesLine ==
    /\ skipped' = skipped \cup {vehicles[vidx]}
    /\ blocks' = [blocks EXCEPT ![Len(blocks)] = Append(@, vehicles[vidx])]
    /\ vidx' = vidx + 1
    /\ pc' = "ed_vehicle"

\* ---------------------------------------------------------------- data_mode.extract_data
\* except: pass -- the failed read leaves no line, the loop goes to the next vehicle
ReadFailed ==
    /\ skipped' = skipped \cup {vehicles[vidx]}
    /\ vidx' = vidx + 1
    /\ pc' = "ed_vehicle"
    /\ UNCHANGED blocks

\* with open(output_file, 'w') as f
ExtractOpen ==
    /\ prog = "data" /\ pc = "ed_open"
    /\ fileOpened' = TRUE
    /\ pc' = "ed_test"
    /\ UNCHANGED <<prog, exc, inputs, sess, sim, cap, actors, vehicles,
                   wait_attempts, blocks, vidx, skipped, printed, reclog, video, handoff, owed>>

\* while frame_count < target (sync) / while time.time() - start_time < target
ExtractTest ==
    /\ prog = "data" /\ pc = "ed_test"
    /\ pc' = IF (IF sync_mode THEN frame_count < Target ELSE elapsed < duration)
             THEN "ed_step" ELSE "rr_finally"
    /\ UNCHANGED <<prog, exc, inputs, sess, sim, cap, actors, telem, printed, reclog, video, handoff, owed>>

\* world.tick() (sync only); vehicles = get_actors().filter(...);
\* f.write("--- Frame n ---")
ExtractStep ==
    /\ prog = "data" /\ pc = "ed_step"
    /\ \/ /\ vehicles' = ActorList(live)
          /\ blocks' = Append(blocks, <<>>)
          /\ skipped' = {}
          /\ vidx' = 1
          /\ ticked' = (ticked \/ sync_mode)
          /\ pc' = "ed_vehicle" /\ UNCHANGED exc
       \/ /\ sync_mode /\ ticked' = TRUE
          /\ Raise(pc) /\ UNCHANGED <<vehicles, blocks, skipped, vidx, reclog, video, handoff, owed>>
    /\ UNCHANGED <<prog, inputs, sess, replayStarted, init_ticks, cap, actors,
                   wait_attempts, fileOpened, printed, reclog, video, handoff, owed>>

\* for vehicle in vehicles: try: t = vehicle.get_transform()
ExtractTransform ==
    /\ prog = "data" /\ pc = "ed_vehicle"
    /\ IF vidx > Len(vehicles)
       THEN pc' = "ed_incr" /\ UNCHANGED <<vidx, skipped, blocks, reclog, video, handoff, owed>>
       ELSE IF vehicles[vidx] \in live
            THEN pc' = "ed_velocity" /\ UNCHANGED <<vidx, skipped, blocks, reclog, video, handoff, owed>>
            ELSE ReadFailed
    /\ UNCHANGED <<prog, exc, inputs, sess, sim, cap, actors, vehicles,
                   wait_attempts, fileOpened, printed, reclog, video, handoff, owed>>

\* v = vehicle.get_velocity(); f.write("Vehicle id: pos=... vel=...")
ExtractVelocity ==
    /\ prog = "data" /\ pc = "ed_velocity"
    /\ IF vehicles[vidx] \in live
       THEN /\ blocks' = [blocks EXCEPT ![Len(blocks)] = Append(@, vehicles[vidx])]
            /\ vidx' = vidx + 1
            /\ pc' = "ed_vehicle" /\ UNCHANGED skipped
       ELSE ReadFailed
    /\ UNCHANGED <<prog, exc, inputs, sess, sim, cap, actors, vehicles,
                   wait_attempts, fileOpened, printed, reclog, video, handoff, owed>>

\* frame_count += 1 (async: then time.sleep(1.0 / FPS))
ExtractIncr ==
    /\ prog = "data" /\ pc = "ed_incr"
    /\ frame_count' = frame_count + 1
    /\ elapsed' = IF sync_mode THEN elapsed ELSE elapsed + 100 \div FPS
    /\ pc' = "ed_test"
    /\ UNCHANGED <<prog, exc, inputs, sess, sim, camera, listening,
                   captured_image, files, actors, telem, printed, reclog, video, handoff, owed>>

\* ---------------------------------------------------------------- record_replay_logs.record_log
\* lines 21-28: try: client.start_recorder(...) except Exception: print; return
RecordStart ==
    /\ prog = "record_log" /\ pc = "start"
    /\ startCalls' = startCalls + 1
    /\ \/ /\ printed' = printed \cup {"Recorder started successfully"}
          /\ pc' = "rl_spawn"
       \/ /\ printed' = printed \cup {"Error starting recorder"}
          /\ pc' = StartFailed
    /\ UNCHANGED <<prog, exc, inputs, sess, sim, cap, actors, telem, stopCalls,
                   slept, infoShown, video, handoff, owed>>

\* lines 30-36: spawn a vehicle under autopilot; an error here is not caught
RecordSpawn ==
    /\ prog = "record_log" /\ pc = "rl_spawn"
    /\ \/ /\ live' = live \cup {1} /\ spawned' = 1
          /\ pc' = "rl_sleep" /\ UNCHANGED exc
       \/ /\ pc' = "done" /\ exc' = TRUE /\ UNCHANGED actors
    /\ UNCHANGED <<prog, inputs, sess, sim, cap, telem, reclog, video, printed, handoff, owed>>

\* lines 38-42: for i in range(duration): time.sleep(1)
RecordSleep ==
    /\ prog = "record_log" /\ pc = "rl_sleep"
    /\ IF slept < duration \div 100
       THEN slept' = slept + 1 /\ UNCHANGED pc
       ELSE pc' = "rl_stop" /\ UNCHANGED slept
    /\ UNCHANGED <<prog, exc, inputs, sess, sim, cap, actors, telem, startCalls,
                   stopCalls, infoShown, video, printed, handoff, owed>>

\* lines 44-50: try: client.stop_recorder() except Exception: print
RecordStop ==
    /\ prog = "record_log" /\ pc = "rl_stop"
    /\ stopCalls' = stopCalls + 1
    /\ \/ /\ printed' = printed \cup {"Recorder stopped successfully"}
          /\ StopReturns
       \/ /\ printed' = printed \cup {"Error stopping recorder"}
          /\ StopFailed
    /\ UNCHANGED <<prog, inputs, sess, sim, cap, actors, telem, startCalls,
                   slept, infoShown, video, handoff, owed>>

\* lines 52-68: report whether the log file was created
RecordCheckFile ==
    /\ prog = "record_log" /\ pc = "rl_check_file"
    /\ \E created \in BOOLEAN :
          printed' = printed \cup
              {IF created THEN "Recording saved" ELSE "Recording file was not created"}
    /\ pc' = "done"
    /\ UNCHANGED <<prog, exc, inputs, sess, sim, cap, actors, telem, reclog, video, handoff, owed>>

\* ---------------------------------------------------------------- record_replay_logs.replay_log
\* lines 78-81: if not os.path.exists(log_filename): print; return
ReplayLogExists ==
    /\ prog = "replay_log" /\ pc = "start"
    /\ IF LogMissing
       THEN printed' = printed \cup {"Log file not found"} /\ pc' = "done"
       ELSE pc' = "rp_replay" /\ UNCHANGED printed
    /\ UNCHANGED <<prog, exc, inputs, sess, sim, cap, actors, telem, reclog, video, handoff, owed>>

\* lines 87-111: try: client.replay_file(...); sleep; except Exception: print
ReplayLogFile ==
    /\ prog = "replay_log" /\ pc = "rp_replay"
    /\ \/ /\ replayStarted' = TRUE
          /\ printed' = printed \cup {"Replay completed"}
       \/ /\ printed' = printed \cup {"Error starting replay"}
          /\ UNCHANGED replayStarted
    /\ pc' = "done"
    /\ UNCHANGED <<prog, exc, inputs, sess, ticked, init_ticks, cap, actors,
                   telem, reclog, video, handoff, owed>>

\* ---------------------------------------------------------------- record_replay_logs.get_log_info
\* lines 118-121: if not os.path.exists(log_filename): print; return
InfoExists ==
    /\ prog = "get_log_info" /\ pc = "start"
    /\ IF LogMissing
       THEN printed' = printed \cup {"Log file not found"} /\ pc' = "done"
       ELSE pc' = "gi_show" /\ UNCHANGED printed
    /\ UNCHANGED <<prog, exc, inputs, sess, sim, cap, actors, telem, reclog, video, handoff, owed>>

\* lines 126-132: try: client.show_recorder_file_info(...) except Exception: print
InfoShow ==
    /\ prog = "get_log_info" /\ pc = "gi_show"
    /\ infoShown' = TRUE
    /\ \/ printed' = printed \cup {"Log file information"}
       \/ printed' = printed \cup {"Error getting log info"}
    /\ pc' = "done"
    /\ UNCHANGED <<prog, exc, inputs, sess, sim, cap, actors, telem, startCalls,
                   stopCalls, slept, video, handoff, owed>>

\* ---------------------------------------------------------------- ffmpeg_video.create_video
\* lines 12-14: if not os.path.exists(SAVE_DIR): print; return False
VideoCheckDir ==
    /\ prog \in {"create_video", "create_video_with_bitrate"}
    /\ pc = (IF prog = "create_video" THEN "start" ELSE "cv_dir")
    /\ IF ~dirExists
       THEN /\ printed' = printed \cup {"Directory does not exist"}
            /\ VideoReturn("False")
       ELSE pc' = "cv_glob" /\ UNCHANGED <<printed, success, handoff, owed>>
    /\ UNCHANGED <<prog, exc, inputs, sess, sim, cap, actors, telem, reclog,
                   vidin, vidcfg, encoderExit, encoderCalls, videoFiles, handoff, owed>>

\* lines 17-22: image_files = glob(frame_*.jpg); if not image_files: return False
VideoGlob ==
    /\ prog \in {"create_video", "create_video_with_bitrate"} /\ pc = "cv_glob"
    /\ IF NoImages
       THEN /\ printed' = printed \cup {"No image files found"}
            /\ VideoReturn("False")
       ELSE pc' = "cv_run" /\ UNCHANGED <<printed, success, handoff, owed>>
    /\ UNCHANGED <<prog, exc, inputs, sess, sim, cap, actors, telem, reclog,
                   vidin, vidcfg, encoderExit, encoderCalls, videoFiles, handoff, owed>>

\* lines 27-53: subprocess.run(cmd, check=True) and its three outcomes
VideoRun ==
    /\ prog \in {"create_video", "create_video_with_bitrate"} /\ pc = "cv_run"
    /\ encoderCalls' = Append(encoderCalls, <<FPS, BITRATE, VIDEO_FILE>>)
    /\ EncoderOutcome
    /\ UNCHANGED <<prog, exc, inputs, sess, sim, cap, actors, telem, reclog,
                   vidin, vidcfg, handoff, owed>>

\* ---------------------------------------------------------------- ffmpeg_video.create_video_with_bitrate
\* lines 59-64: save the globals, override them
BitrateOverride ==
    /\ prog = "create_video_with_bitrate" /\ pc = "start"
    /\ original_bitrate' = BITRATE
    /\ original_video' = VIDEO_FILE
    /\ BITRATE' = bitrate
    /\ VIDEO_FILE' = IF output_name \notin {"None", ""} THEN output_name ELSE VIDEO_FILE
    /\ pc' = "cv_dir"
    /\ UNCHANGED <<prog, exc, inputs, sess, sim, cap, actors, telem, reclog,
                   vidin, vidout, printed, handoff, owed>>

\* only the bitrate is restored
BitrateRestoreForgetsVideo ==
    /\ prog = "create_video_with_bitrate" /\ pc = "cvb_restore"
    /\ BITRATE' = original_bitrate
    /\ pc' = "done"
    /\ UNCHANGED <<prog, exc, inputs, sess, sim, cap, handoff, owed, actors, telem,
                   reclog, vidin, VIDEO_FILE, original_bitrate, original_video,
                   vidout, printed>>

\* lines 68-72: restore the globals, return success
BitrateRestore ==
    /\ prog = "create_video_with_bitrate" /\ pc = "cvb_restore"
    /\ BITRATE' = original_bitrate
    /\ VIDEO_FILE' = original_video
    /\ pc' = "done"
    /\ UNCHANGED <<prog, exc, inputs, sess, sim, cap, actors, telem, reclog,
                   vidin, original_bitrate, original_video, vidout, printed, handoff, owed>>

Next ==
    \/ RecSettings \/ RecSpawnVehicle \/ RecSpawnCamera \/ RecListen
    \/ RecCleanup \/ RecRestore
    \/ LoopTest \/ Tick \/ OnImage \/ CheckHolder \/ SaveFrame \/ IncrFrame
    \/ ClearHolder
    \/ RunReplayExists \/ RunReplaySettings \/ RunReplayFile \/ RunReplayInit
    \/ RunReplayCall \/ RunReplayFinally \/ ModeFinally
    \/ CaptureCreateCamera \/ AsyncWait \/ AsyncSaveImage
    \/ EnvSpawnVehicle \/ EnvDestroyVehicle
    \/ WaitTest \/ WaitPoll \/ WaitAfter \/ FollowCreateCamera
    \/ ExtractOpen \/ ExtractTest \/ ExtractStep \/ ExtractTransform
    \/ ExtractVelocity \/ ExtractIncr
    \/ RecordStart \/ RecordSpawn \/ RecordSleep \/ RecordStop \/ RecordCheckFile
    \/ ReplayLogExists \/ ReplayLogFile \/ InfoExists \/ InfoShow
    \/ VideoCheckDir \/ VideoGlob \/ VideoRun \/ BitrateOverride \/ BitrateRestore

Spec == Init /\ [][Next]_vars

\* one step of the main thread inside the lock-step capture loop
LoopStep ==
    LoopTest \/ Tick \/ CheckHolder \/ SaveFrame \/ IncrFrame \/ ClearHolder

\* the programs whose capture runs without the bootstrap wait: the recorder
\* and camera_mode (follow_mode's loop is the same statements after the wait)
InitLoop ==
    /\ InitCommon
    /\ (InitRecorder \/ (InitReplay /\ prog = "camera"))

NextLoop ==
    \/ RecSettings \/ RecSpawnVehicle \/ RecSpawnCamera \/ RecListen
    \/ RecCleanup \/ RecRestore
    \/ LoopTest \/ Tick \/ OnImage \/ CheckHolder \/ SaveFrame \/ IncrFrame
    \/ ClearHolder
    \/ RunReplayExists \/ RunReplaySettings \/ RunReplayFile \/ RunReplayInit
    \/ RunReplayCall \/ RunReplayFinally \/ ModeFinally
    \/ CaptureCreateCamera \/ AsyncWait \/ AsyncSaveImage

\* the main thread keeps running: a loop statement that can execute does
\* (world.tick returns or raises)
SpecLoop == InitLoop /\ [][NextLoop]_vars /\ WF_vars(LoopStep)

\* ================================================================ properties

\* the lock-step loop of a capture program ran to its end (no error, no abort)
LoopFinished ==
    /\ prog \in CaptureProgs /\ sync_mode /\ ~exc
    /\ camera # "None"
    /\ pc \in {"ri_cleanup", "ri_restore", "rr_finally", "mode_finally", "done"}

\* C1: when the lock-step capture loop finishes with N >= 1 requested frames,
\* the files written are exactly frame 0 .. frame N-1, each once, in order.
C1_ExactFrames ==
    (LoopFinished /\ Target >= 1) => files = [i \in 1..Target |-> i - 1]

C1_Witness ==
    /\ LoopFinished /\ prog = "follow" /\ cbMode = "free"
    /\ Target >= 2 /\ pc = "done"

\* C2: whenever run_replay exits after having changed the world settings, the
\* settings in force equal the ones in force just before it changed them.
C2_ReplaySettingsRestored ==
    (prog \in ReplayModes /\ pc = "done" /\ mutated) => worldSettings = preSettings

\* C3: whenever the recorder script exits after having applied its stepping
\* settings, the original settings are in force again, also after a failure.
C3_RecorderSettingsRestored ==
    (prog = "record_images" /\ pc = "done" /\ mutated) => worldSettings = preSettings

\* C4: with the callback run at most once per tick and inside the tick call,
\* every time the loop is about to call tick the holder is empty and every
\* frame counted so far has been written under its sequence number.
C4_HolderEmptyAtTick ==
    (prog \in CaptureProgs /\ sync_mode /\ cbMode = "in_tick" /\ pc = "tick")
        => /\ captured_image = "None"
           /\ files = [i \in 1..frame_count |-> i - 1]

C4_Witness ==
    /\ prog = "camera" /\ sync_mode /\ cbMode = "in_tick" /\ pc = "tick"
    /\ frame_count >= 1

\* the bootstrap wait gave up
WaitAborted == prog \in {"data", "follow"} /\ "No vehicles found" \in printed

\* C5: the bootstrap wait makes at most max_wait_attempts polls; when it gives
\* up it has made exactly that many, no vehicle collection was indexed, no
\* camera created, no telemetry file opened and no capture step run; it goes
\* on to the capture only with at least one vehicle found.
C5_BootstrapWait ==
    /\ wait_attempts <= max_wait_attempts
    /\ pc = "wait_poll" => wait_attempts < max_wait_attempts
    /\ "IndexError" \notin printed
    /\ WaitAborted =>
          /\ wait_attempts = max_wait_attempts
          /\ vehicles = <<>>
          /\ camera = "None" /\ ~fileOpened
          /\ frame_count = 0 /\ files = <<>> /\ blocks = <<>>
          /\ ~exc
          /\ pc \in {"rr_finally", "mode_finally", "done"}
    /\ pc \in {"ed_open", "fv_create_camera"} => vehicles # <<>>
    /\ (prog \in {"data", "follow"} /\ (fileOpened \/ camera # "None"))
          => ~WaitAborted

C5_Witness ==
    /\ WaitAborted /\ prog = "follow" /\ pc = "done"
    /\ wait_attempts = max_wait_attempts

\* the lines a finished block must hold: one per enumerated vehicle whose
\* reads both succeeded, in enumeration order
ExpectedLines == SelectSeq(vehicles, LAMBDA v : v \notin skipped)

\* C6: in telemetry extraction a vehicle whose read fails leaves no line in
\* the step's block, every other enumerated vehicle leaves exactly one, the
\* step counter advances with every block and a failed read never aborts the
\* run: a lock-step run that ends without a tick error wrote all its blocks.
C6_TelemetrySkips ==
    prog = "data" =>
        /\ pc = "ed_incr" =>
              /\ blocks[Len(blocks)] = ExpectedLines
              /\ Len(blocks[Len(blocks)]) = Len(vehicles) - Cardinality(skipped)
              /\ Len(blocks) = frame_count + 1
        /\ pc \in {"ed_test", "ed_step"} => Len(blocks) = frame_count
        /\ pc \in {"ed_vehicle", "ed_velocity", "ed_incr"} => ~exc
        /\ (sync_mode /\ fileOpened /\ ~exc /\ pc \in {"rr_finally", "done"})
              => (frame_count = Target /\ Len(blocks) = Target)

C6_Witness ==
    /\ prog = "data" /\ pc = "ed_incr"
    /\ Len(vehicles) = 2 /\ Cardinality(skipped) = 1
    /\ Len(blocks[Len(blocks)]) = 1
    /\ Len(blocks) >= 2

VideoProgs == {"create_video", "create_video_with_bitrate"}

\* C7: with the frame directory missing or holding no frame file, create_video
\* never invokes the encoder, creates no output file and returns False.
C7_NoFramesNoEncoder ==
    (prog \in VideoProgs /\ (~dirExists \/ numImages = 0)) =>
        /\ encoderCalls = <<>>
        /\ videoFiles = {}
        /\ success # "True"
        /\ pc \in {"cvb_restore", "done"} => success = "False"

C7_Witness ==
    /\ prog = "create_video" /\ dirExists /\ numImages = 0
    /\ pc = "done" /\ success = "False"

FailureReports ==
    {"Directory does not exist", "No image files found", "ffmpeg not found",
     "ffmpeg failed"}

\* C8: create_video never raises for its failure kinds; each kind prints its
\* own report (the non-zero exit with the encoder's diagnostic output) and
\* returns False; it returns True exactly when the encoder ran and exited zero.
C8_DistinctFailures ==
    prog \in VideoProgs =>
        /\ ~exc
        /\ success = "True" <=> encoderExit = "zero"
        /\ success = "False" => Cardinality(printed \cap FailureReports) = 1
        /\ success = "unset" => printed \cap FailureReports = {}
        /\ "No image files found" \in printed
              <=> (success = "False" /\ dirExists /\ numImages = 0)
        /\ "ffmpeg not found" \in printed <=> encoderExit = "not_installed"
        /\ "ffmpeg failed" \in printed <=> encoderExit = "nonzero"
        /\ "Error output: stderr" \in printed <=> encoderExit = "nonzero"
        /\ encoderExit = "nonzero" => success = "False"
        /\ encoderExit = "not_installed" => success = "False"

C8_Witness ==
    /\ prog = "create_video" /\ pc = "done"
    /\ encoderExit = "nonzero" /\ success = "False"
    /\ "Error output: stderr" \in printed

\* C9: with the event-log file missing, run_replay, replay_log and
\* get_log_info return without raising and without touching the simulator.
C9_MissingLogNoEffect ==
    (prog \in ReplayModes \cup {"replay_log", "get_log_info"} /\ ~logExists) =>
        /\ ~exc
        /\ ~mutated /\ worldSettings = preSettings
        /\ ~replayStarted /\ ~ticked /\ ~infoShown
        /\ camera = "None" /\ ~listening /\ files = <<>> /\ ~fileOpened
        /\ pc \in {"start", "mode_finally", "done"}
        /\ pc # "start" => "Log file not found" \in printed

C9_Witness ==
    /\ prog = "camera" /\ ~logExists /\ pc = "done"
    /\ "Log file not found" \in printed

\* C10: in record_log an error of start_recorder or of stop_recorder is
\* reported and does not propagate: after a start failure record_log has
\* returned with no vehicle spawned and no stop call; after a stop failure it
\* goes through the output-file check and returns normally.
C10_RecorderErrorsCaught ==
    prog = "record_log" =>
        /\ "Error starting recorder" \in printed =>
              /\ pc = "done" /\ ~exc
              /\ live = {} /\ spawned = 0
              /\ stopCalls = 0
        /\ "Error stopping recorder" \in printed =>
              /\ ~exc
              /\ pc \in {"rl_check_file", "done"}
              /\ pc = "done" =>
                    printed \cap {"Recording saved", "Recording file was not created"} # {}

C10_Witness ==
    /\ prog = "record_log" /\ pc = "done" /\ ~exc
    /\ "Error stopping recorder" \in printed
    /\ "Recording file was not created" \in printed

\* the main thread is inside the lock-step capture loop
InLoop ==
    /\ prog \in CaptureProgs /\ sync_mode
    /\ pc \in {"loop_test", "tick", "check", "save", "incr", "clear"}

\* C11: a tick that delivered nothing writes no file and leaves the counter
\* alone, and the loop goes back to tick again; the counter advances only by
\* one, for a held frame that was written; the loop is never blocked: inside
\* it a step is always possible and the next tick (or the loop's end) always
\* comes; a held frame always gets counted; the loop ends normally only with
\* N frames written.
C11_StarvedLoopReticks ==
    /\ [][(InLoop /\ pc = "check" /\ captured_image = "None" /\ pc' # pc)
            => (pc' = "loop_test" /\ files' = files /\ frame_count' = frame_count)]_vars
    /\ [][(InLoop /\ pc = "loop_test" /\ frame_count < Target /\ pc' # pc)
            => pc' = "tick"]_vars
    /\ [][(InLoop /\ frame_count' # frame_count)
            => (/\ captured_image = "image"
                /\ frame_count' = frame_count + 1
                /\ Len(files) = frame_count')]_vars
    /\ [](InLoop => ENABLED LoopStep)
    /\ [](InLoop => <>(pc = "tick" \/ ~InLoop))
    /\ []((InLoop /\ pc = "check" /\ captured_image = "image")
            => <>(pc = "clear" \/ ~InLoop))
    /\ [](LoopFinished => Len(files) = Target)

C11_Witness ==
    /\ prog = "record_images" /\ cbMode = "in_tick"
    /\ pc = "loop_test" /\ ticked
    /\ frame_count = 0 /\ captured_image = "None" /\ files = <<>>

\* C12: with the callback interleaving freely with the main loop, no frame the
\* callback stored is replaced by a later delivery or cleared by the main loop
\* before it was written to disk.
C12_NoStoredFrameLost ==
    (prog \in CaptureProgs /\ sync_mode /\ cbMode = "free") => ~lost

\* the output name the override puts in force for the call
OverriddenVideo ==
    IF output_name \in {"None", ""} THEN "carla_output.mp4" ELSE output_name

\* C13: create_video_with_bitrate overrides BITRATE and VIDEO_FILE for the
\* call only: the encoder is run with the overriding values, and once the
\* function has returned, with success or failure, both globals hold the values
\* they had before the call; an empty or None output name never changes
\* VIDEO_FILE.
C13_OverrideRestored ==
    prog = "create_video_with_bitrate" =>
        /\ pc = "done" =>
              /\ BITRATE = "5M" /\ VIDEO_FILE = "carla_output.mp4"
              /\ success \in {"True", "False"}
              /\ ~exc
        /\ output_name \in {"None", ""} => VIDEO_FILE = "carla_output.mp4"
        /\ pc \in {"cv_dir", "cv_glob", "cv_run", "cvb_restore"} =>
              /\ BITRATE = bitrate /\ VIDEO_FILE = OverriddenVideo
              /\ original_bitrate = "5M" /\ original_video = "carla_output.mp4"
        /\ \A i \in 1..Len(encoderCalls) :
              encoderCalls[i] = <<FPS, bitrate, OverriddenVideo>>
        /\ videoFiles \subseteq {OverriddenVideo}

C13_Witness ==
    /\ prog = "create_video_with_bitrate" /\ pc = "done"
    /\ bitrate = "10M" /\ output_name = "high_quality.mp4"
    /\ encoderExit = "nonzero" /\ success = "False"
    /\ BITRATE = "5M" /\ VIDEO_FILE = "carla_output.mp4"

\* start_recorder returned without error
RecorderStarted == "Recorder started successfully" \in printed

\* C14: in record_log every successful start_recorder is followed, before
\* record_log exits by return or by an error, by exactly one stop_recorder call
\* made after the whole duration was slept; no stop call follows a failed start.
C14_StartStopPaired ==
    prog = "record_log" =>
        /\ (pc = "done" /\ RecorderStarted) =>
              (stopCalls = 1 /\ slept = duration \div 100)
        /\ stopCalls <= 1
        /\ stopCalls = 1 => (RecorderStarted /\ slept = duration \div 100)
        /\ ~RecorderStarted => stopCalls = 0

====
